---------------------------- MODULE Spec2Model ----------------------------
(***************************************************************************)
(* mcp-bear: the tool dispatcher (server.py call_tool), the command        *)
(* builders and launcher adapter (bear_url.py) and the data readers        *)
(* (database.py) as a state machine.                                       *)
(*                                                                         *)
(* A Python string is a sequence of symbols.  A symbol is one character    *)
(* ("a", " ", "&", "%") or a run of unreserved characters that no          *)
(* operation of the program splits ("append", "note_id", "n1").            *)
(***************************************************************************)
EXTENDS Integers, Sequences, FiniteSets, TLC

VARIABLES
    notes,      \* rows of the ZSFNOTE relation, in row order
    tags,       \* rows of the ZSFNOTETAG relation (ZTITLE of each row)
    storeState, \* the database file: "ok" | "unopenable" (connect fails) |
                \* "corrupt" (execute fails) | "nocolumn" (a column the readers
                \* copy is missing) | "absent" (no file at the path) |
                \* "empty" (a file with no table in it)
    pc,         \* "idle" | "waiting" (blocked in subprocess.run) | "done"
    name,       \* operation name of the call in progress
    arguments,  \* arguments of the call in progress
    trace,      \* what the call in progress did outside its own frame, in order
    procFate,   \* whether the spawned 'open' process exits: "none" | "exits" | "hangs"
    exitStatus, \* how subprocess.run ended: "none" while it has not, else as ProcExits
    raised,     \* the exception raised inside call_tool's try block (NoExc while none)
    returned,   \* what the executor function returned to call_tool (NoResult while nothing)
    response,   \* the list call_tool returned (<<>> while none)
    propagated, \* the exception that left call_tool (NoExc while none)
    pending     \* requests the front end has received and not yet handed to call_tool

vars == <<notes, tags, storeState, pc, name, arguments, trace, procFate, exitStatus,
          raised, returned, response, propagated, pending>>

-----------------------------------------------------------------------------
(* Bounds of the model *)

MaxNotes == 2      \* rows of ZSFNOTE in the dispatcher specification
MaxIdLen == 1      \* symbols of a note id in the command-URI specification
MaxTextLen == 2    \* symbols of a text in the command-URI specification
MaxTags == 2       \* tags of a tag list in the command-URI specification
MaxLikeLen == 2    \* symbols of a title or pattern in the search specification
MaxPending == 1    \* requests waiting for the handler in the shared-store specification
MaxTagRows == 2    \* rows of ZSFNOTETAG in the shared-store specification

-----------------------------------------------------------------------------
(* Python values *)

None == [t |-> "NoneType"]
Str(s) == [t |-> "str", s |-> s]
Bool(b) == [t |-> "bool", b |-> b]
Num(n) == [t |-> "int", n |-> n]
List(l) == [t |-> "list", l |-> l]
Dict(d) == [t |-> "dict", d |-> d]

EmptyDict == Dict([k \in {} |-> None])

RECURSIVE Concat(_)
Concat(ss) == IF ss = <<>> THEN <<>> ELSE Head(ss) \o Concat(Tail(ss))

RECURSIVE JoinSeq(_, _)
JoinSeq(sep, ss) ==
    IF ss = <<>> THEN <<>>
    ELSE IF Len(ss) = 1 THEN Head(ss)
    ELSE Head(ss) \o sep \o JoinSeq(sep, Tail(ss))

\* bool(v): the truth value Python's `if v:` tests
Truthy(v) ==
    CASE v.t = "NoneType" -> FALSE
      [] v.t = "str" -> v.s # <<>>
      [] v.t = "bool" -> v.b
      [] v.t = "int" -> v.n # 0
      [] v.t = "list" -> v.l # <<>>
      [] v.t = "dict" -> DOMAIN v.d # {}

\* repr(v) of a list element; the model's strings hold no quote or backslash
ReprItem(v) ==
    CASE v.t = "NoneType" -> <<"None">>
      [] v.t = "str" -> <<"'">> \o v.s \o <<"'">>
      [] v.t = "bool" -> IF v.b THEN <<"True">> ELSE <<"False">>
      [] OTHER -> <<"...">>

\* str(v), as urlencode and the f-strings apply it
PyStr(v) ==
    CASE v.t = "NoneType" -> <<"None">>
      [] v.t = "str" -> v.s
      [] v.t = "bool" -> IF v.b THEN <<"True">> ELSE <<"False">>
      [] v.t = "list" ->
            <<"[">> \o JoinSeq(<<",", " ">>, [i \in 1..Len(v.l) |-> ReprItem(v.l[i])])
                    \o <<"]">>
      [] OTHER -> <<"...">>

\* Exceptions: a class and the message str(e) gives
Exc(cls, msg) == [cls |-> cls, msg |-> msg]
NoExc == [cls |-> "none", msg |-> <<>>]

\* No value: the executor was not called, raised, or has not returned yet
NoResult == [t |-> "noresult"]

\* The exception classes the modelled code raises; all derive from Exception
ExceptionClasses ==
    {"ValueError", "TypeError", "OperationalError", "ProgrammingError",
     "IndexError", "FileNotFoundError", "CalledProcessError"}

-----------------------------------------------------------------------------
(* urllib.parse.urlencode, as bear_url.py calls it (quote_via = quote_plus) *)

\* Characters quote_plus percent-encodes, with their two hex digits
HexOf(c) ==
    CASE c = "&" -> "26" [] c = "=" -> "3D" [] c = "%" -> "25"
      [] c = "+" -> "2B" [] c = "," -> "2C" [] c = "#" -> "23"
      [] c = "'" -> "27" [] c = "[" -> "5B" [] c = "]" -> "5D"
      [] c = "/" -> "2F" [] c = ":" -> "3A" [] c = "?" -> "3F"
      [] OTHER -> ""

Reserved == {"&", "=", "%", "+", ",", "#", "'", "[", "]", "/", ":", "?"}

HexPairs == {HexOf(c) : c \in Reserved}

QuoteSymbol(c) ==
    IF c = " " THEN <<"+">>
    ELSE IF c \in Reserved THEN <<"%", HexOf(c)>>
    ELSE <<c>>

quote_plus(s) == Concat([i \in 1..Len(s) |-> QuoteSymbol(s[i])])

\* params: the dict as its (key, value) pairs in insertion order
urlencode(params) ==
    JoinSeq(<<"&">>,
            [i \in 1..Len(params) |->
                quote_plus(<<params[i][1]>>) \o <<"=">> \o quote_plus(PyStr(params[i][2]))])

-----------------------------------------------------------------------------
(* What a function of the program does when called: it returns a value,    *)
(* raises, or ends in `return _open_bear_url(url)`.                        *)

Returns(v) == [k |-> "return", v |-> v]
Raises(e) == [k |-> "raise", e |-> e]
Opens(url) == [k |-> "open", url |-> url]

\* Faulty variant: "".join(tags)
JoinTagsNoSeparator(tagsArg) ==
    CASE tagsArg.t = "list" ->
            IF \A i \in 1..Len(tagsArg.l) : tagsArg.l[i].t = "str"
            THEN Returns(Str(Concat([i \in 1..Len(tagsArg.l) |-> tagsArg.l[i].s])))
            ELSE Raises(Exc("TypeError", <<"sequence item: expected str instance">>))
      [] tagsArg.t = "str" -> Returns(tagsArg)
      [] OTHER -> Raises(Exc("TypeError", <<"can only join an iterable">>))

\* ",".join(tags)
JoinTags(tagsArg) ==
    CASE tagsArg.t = "list" ->
            IF \A i \in 1..Len(tagsArg.l) : tagsArg.l[i].t = "str"
            THEN Returns(Str(JoinSeq(<<",">>, [i \in 1..Len(tagsArg.l) |-> tagsArg.l[i].s])))
            ELSE Raises(Exc("TypeError", <<"sequence item: expected str instance">>))
      [] tagsArg.t = "str" ->
            Returns(Str(JoinSeq(<<",">>, [i \in 1..Len(tagsArg.s) |-> <<tagsArg.s[i]>>])))
      [] OTHER -> Raises(Exc("TypeError", <<"can only join an iterable">>))

BearUrl(segment, params) == <<"bear://x-callback-url/", segment, "?">> \o urlencode(params)

create_note(title, text, tagsArg, pin, open_note_flag) ==
    LET p1 == IF Truthy(title) THEN << <<"title", title>> >> ELSE <<>>
        p2 == IF Truthy(text) THEN << <<"text", text>> >> ELSE <<>>
        joined == JoinTags(tagsArg)
        p4 == IF Truthy(pin) THEN << <<"pin", Str(<<"yes">>)>> >> ELSE <<>>
        p5 == IF Truthy(open_note_flag) THEN << <<"open_note", Str(<<"yes">>)>> >> ELSE <<>>
    IN  IF Truthy(tagsArg) /\ joined.k = "raise" THEN joined
        ELSE LET p3 == IF Truthy(tagsArg) THEN << <<"tags", joined.v>> >> ELSE <<>>
             IN  Opens(BearUrl("create", p1 \o p2 \o p3 \o p4 \o p5))

AllowedModes == {Str(<<"append">>), Str(<<"prepend">>), Str(<<"replace">>)}

InvalidModeError(mode) ==
    Dict([success |-> Bool(FALSE),
          error |-> Str(<<"Invalid mode: ">> \o PyStr(mode)
                        \o <<". Use ", "append", ", ", "prepend", ", or ", "replace">>)])

\* Faulty variant: the mode is not validated
add_text_unchecked(note_id, text, mode, open_note_flag) ==
    Opens(BearUrl("add-text",
                  << <<"id", note_id>>, <<"text", text>>, <<"mode", mode>> >>
                  \o (IF Truthy(open_note_flag)
                      THEN << <<"open_note", Str(<<"yes">>)>> >> ELSE <<>>)))

add_text(note_id, text, mode, open_note_flag) ==
    IF mode \notin AllowedModes
    THEN Returns(InvalidModeError(mode))
    ELSE Opens(BearUrl("add-text",
                       << <<"id", note_id>>, <<"text", text>>, <<"mode", mode>> >>
                       \o (IF Truthy(open_note_flag)
                           THEN << <<"open_note", Str(<<"yes">>)>> >> ELSE <<>>)))

add_tags_to_note(note_id, tagsArg) ==
    LET joined == JoinTags(tagsArg)
    IN  IF joined.k = "raise" THEN joined
        ELSE Opens(BearUrl("add-tags", << <<"id", note_id>>, <<"tags", joined.v>> >>))

trash_note(note_id) == Opens(BearUrl("trash", << <<"id", note_id>> >>))

open_note(note_id) == Opens(BearUrl("open-note", << <<"id", note_id>> >>))

search_in_bear(term) == Opens(BearUrl("search", << <<"term", term>> >>))

archive_note(note_id) == Opens(BearUrl("archive", << <<"id", note_id>> >>))

unarchive_note(note_id) == Opens(BearUrl("unarchive", << <<"id", note_id>> >>))

open_tag(tag) == Opens(BearUrl("open-tag", << <<"name", tag>> >>))

rename_tag(old_tag, new_tag) ==
    Opens(BearUrl("rename-tag", << <<"name", old_tag>>, <<"new_name", new_tag>> >>))

-----------------------------------------------------------------------------
(* The launcher adapter.  `exit` is how subprocess.run(["open", url],      *)
(* check=True) ended: "zero", "nonzero" (CalledProcessError) or "nostart"  *)
(* (the process could not be started: any other Exception).                *)

ProcExits == {"zero", "nonzero", "nostart"}

\* Faulty variant: subprocess.run without check=True, a non-zero exit is not
\* an exception
_open_bear_url_unchecked(url, exit) ==
    CASE exit \in {"zero", "nonzero"} ->
            Dict([success |-> Bool(TRUE),
                  message |-> Str(<<"Command sent to Bear successfully">>)])
      [] OTHER ->
            Dict([success |-> Bool(FALSE),
                  error |-> Str(<<"Failed to open Bear URL: ",
                                  "[Errno 2] No such file or directory: 'open'">>)])

_open_bear_url(url, exit) ==
    CASE exit = "zero" ->
            Dict([success |-> Bool(TRUE),
                  message |-> Str(<<"Command sent to Bear successfully">>)])
      [] exit = "nonzero" ->
            Dict([success |-> Bool(FALSE),
                  error |-> Str(<<"Command '['open', '">> \o url
                                \o <<"']' returned non-zero exit status 1.">>)])
      [] OTHER ->
            Dict([success |-> Bool(FALSE),
                  error |-> Str(<<"Failed to open Bear URL: ",
                                  "[Errno 2] No such file or directory: 'open'">>)])

-----------------------------------------------------------------------------
(* The store and the data readers (database.py)                            *)

\* What a call did outside its own frame
Ev(e, x) == [e |-> e, x |-> x]

Lower(c) ==
    CASE c = "A" -> "a" [] c = "B" -> "b" [] c = "X" -> "x" [] OTHER -> c

\* SQLite's LIKE on text: % matches any run, _ any one character, and
\* letters match without regard to case
RECURSIVE Like(_, _)
Like(p, s) ==
    IF p = <<>> THEN s = <<>>
    ELSE IF Head(p) = "%"
         THEN Like(Tail(p), s) \/ (s # <<>> /\ Like(p, Tail(s)))
         ELSE /\ s # <<>>
              /\ (Head(p) = "_" \/ Lower(Head(p)) = Lower(Head(s)))
              /\ Like(Tail(p), Tail(s))

\* column LIKE ?  (NULL LIKE ? is NULL: the row is not selected)
SqlLike(col, pattern) == col.t = "str" /\ Like(pattern, col.s)

\* The five columns the list readers copy out of a row
ListRecord(row) ==
    Dict([ZCREATIONDATE |-> row.ZCREATIONDATE,
          ZSUBTITLE |-> row.ZSUBTITLE,
          ZTEXT |-> row.ZTEXT,
          ZTITLE |-> row.ZTITLE,
          ZUNIQUEIDENTIFIER |-> row.ZUNIQUEIDENTIFIER])

\* The seven columns get_note_by_id copies out of a row
DetailRecord(row) ==
    Dict([ZCREATIONDATE |-> row.ZCREATIONDATE,
          ZMODIFICATIONDATE |-> row.ZMODIFICATIONDATE,
          ZARCHIVED |-> row.ZARCHIVED,
          ZSUBTITLE |-> row.ZSUBTITLE,
          ZTEXT |-> row.ZTEXT,
          ZTITLE |-> row.ZTITLE,
          ZUNIQUEIDENTIFIER |-> row.ZUNIQUEIDENTIFIER])

MapRows(rows) == List([i \in 1..Len(rows) |-> ListRecord(rows[i])])

\* sqlite3.connect(db_path), with no mode given, opens the file for reading
\* and writing and creates it when the path names none
AfterConnect(state) == IF state = "absent" THEN "empty" ELSE state

\* The call opened a store connection
Connected(ev) == \E i \in 1..Len(ev) : ev[i] = Ev("connect", <<"ok">>)

\* The row mapping copies columns out of a row: it runs when a row was fetched
Mapped(result) == result.t = "dict" \/ (result.t = "list" /\ result.l # <<>>)

\* The events of a reader that connected: the finally clause closes the
\* connection whether the try block returned or raised
ConnectedEvents(fname, sql) ==
    <<Ev("call", <<fname>>), Ev("connect", <<"ok">>), Ev("execute", <<sql>>),
      Ev("close", <<>>)>>

\* The events of a reader that connected and raised, had it no finally clause
UnclosedEvents(fname, sql) ==
    <<Ev("call", <<fname>>), Ev("connect", <<"ok">>), Ev("execute", <<sql>>)>>

\* Faulty variant: conn.close() follows the row mapping instead of standing
\* in a finally clause
ReaderFrameNoFinally(db, fname, sql, bindable, result) ==
    IF db.state = "unopenable"
    THEN [out |-> Raises(Exc("OperationalError", <<"unable to open database file">>)),
          ev |-> <<Ev("call", <<fname>>), Ev("connect", <<"error">>)>>]
    ELSE IF ~bindable
    THEN [out |-> Raises(Exc("ProgrammingError",
                             <<"Error binding parameter 1: type is not supported">>)),
          ev |-> UnclosedEvents(fname, sql)]
    ELSE IF db.state \in {"corrupt", "absent", "empty"}
    THEN [out |-> Raises(Exc("OperationalError", <<"no such table">>)),
          ev |-> UnclosedEvents(fname, sql)]
    ELSE IF db.state = "nocolumn" /\ Mapped(result)
    THEN [out |-> Raises(Exc("IndexError", <<"No item with that key">>)),
          ev |-> UnclosedEvents(fname, sql)]
    ELSE [out |-> Returns(result),
          ev |-> ConnectedEvents(fname, sql)]

\* sqlite3.connect .. try: execute, fetch, map .. finally: conn.close(),
\* the frame every reader shares.  db is the store as the call finds it;
\* bindable is whether sqlite3 can bind the query's parameters.
ReaderFrame(db, fname, sql, bindable, result) ==
    IF db.state = "unopenable"
    THEN [out |-> Raises(Exc("OperationalError", <<"unable to open database file">>)),
          ev |-> <<Ev("call", <<fname>>), Ev("connect", <<"error">>)>>]
    ELSE IF ~bindable
    THEN [out |-> Raises(Exc("ProgrammingError",
                             <<"Error binding parameter 1: type is not supported">>)),
          ev |-> ConnectedEvents(fname, sql)]
    ELSE IF db.state \in {"corrupt", "absent", "empty"}
    THEN [out |-> Raises(Exc("OperationalError", <<"no such table">>)),
          ev |-> ConnectedEvents(fname, sql)]
    ELSE IF db.state = "nocolumn" /\ Mapped(result)
    THEN [out |-> Raises(Exc("IndexError", <<"No item with that key">>)),
          ev |-> ConnectedEvents(fname, sql)]
    ELSE [out |-> Returns(result),
          ev |-> ConnectedEvents(fname, sql)]

NotArchived(row) == row.ZARCHIVED = Num(0)

get_notes(db) ==
    ReaderFrame(db, "get_notes", "SELECT * FROM ZSFNOTE WHERE ZARCHIVED=0;", TRUE,
                MapRows(SelectSeq(db.notes, NotArchived)))

LikePattern(search_text) == <<"%">> \o PyStr(search_text) \o <<"%">>

NotesLikeRows(rows, search_text) ==
    LET Test(row) == /\ row.ZARCHIVED = Num(0)
                     /\ \/ SqlLike(row.ZTEXT, LikePattern(search_text))
                        \/ SqlLike(row.ZTITLE, LikePattern(search_text))
    IN  SelectSeq(rows, Test)

get_notes_like(db, search_text) ==
    ReaderFrame(db, "get_notes_like",
                "SELECT * FROM ZSFNOTE WHERE ZARCHIVED=0 AND (ZTEXT LIKE ? OR ZTITLE LIKE ?);",
                TRUE, MapRows(NotesLikeRows(db.notes, search_text)))

get_tags(db) ==
    ReaderFrame(db, "get_tags", "SELECT * FROM ZSFNOTETAG;", TRUE, List(db.tags))

\* The values sqlite3 binds as a parameter
Bindable(v) == v.t \in {"NoneType", "str", "bool", "int"}

\* ZUNIQUEIDENTIFIER=? : a NULL parameter selects nothing, text is compared
\* byte for byte, and a number is compared as its text (the column has TEXT
\* affinity)
IdEquals(col, v) ==
    CASE v.t = "str" -> col = v
      [] v.t = "bool" -> col = Str(IF v.b THEN <<"1">> ELSE <<"0">>)
      [] OTHER -> FALSE

\* Faulty variant: the query carries the list queries' ZARCHIVED=0 condition too
NoteByIdRowsUnarchived(rows, note_id) ==
    LET Test(row) == row.ZARCHIVED = Num(0) /\ IdEquals(row.ZUNIQUEIDENTIFIER, note_id)
    IN  SelectSeq(rows, Test)

NoteByIdRows(rows, note_id) ==
    LET Test(row) == IdEquals(row.ZUNIQUEIDENTIFIER, note_id)
    IN  SelectSeq(rows, Test)

\* fetchone(): the first selected row, or None
get_note_by_id(db, note_id) ==
    LET rows == NoteByIdRows(db.notes, note_id)
    IN  ReaderFrame(db, "get_note_by_id",
                    "SELECT * FROM ZSFNOTE WHERE ZUNIQUEIDENTIFIER=?;",
                    Bindable(note_id),
                    IF rows # <<>> THEN DetailRecord(rows[1]) ELSE None)

TagPattern(tag) == <<"%", "#">> \o PyStr(tag) \o <<"%">>

NotesByTagRows(rows, tag) ==
    LET Test(row) == /\ row.ZARCHIVED = Num(0)
                     /\ SqlLike(row.ZTEXT, TagPattern(tag))
    IN  SelectSeq(rows, Test)

get_notes_by_tag(db, tag) ==
    ReaderFrame(db, "get_notes_by_tag",
                "SELECT * FROM ZSFNOTE WHERE ZARCHIVED=0 AND ZTEXT LIKE ?;",
                TRUE, MapRows(NotesByTagRows(db.notes, tag)))

\* Faulty variant: SELECT * FROM ZSFNOTE; with no WHERE clause
IsAnyRow(row) == TRUE

IsArchived(row) == row.ZARCHIVED = Num(1)

get_archived_notes(db) ==
    ReaderFrame(db, "get_archived_notes", "SELECT * FROM ZSFNOTE WHERE ZARCHIVED=1;", TRUE,
                MapRows(SelectSeq(db.notes, IsArchived)))

-----------------------------------------------------------------------------
(* The dispatcher (server.py)                                              *)

\* The names list_tools returns
ToolNames ==
    {"get_notes", "get_tags", "get_notes_like", "create_note", "add_text",
     "add_tags", "trash_note", "open_note", "search_bear", "get_note_by_id",
     "get_notes_by_tag", "get_archived_notes", "archive_note", "unarchive_note",
     "open_tag", "rename_tag"}

\* The "required" list of each tool's inputSchema
Required(n) ==
    CASE n = "get_notes_like" -> {"like"}
      [] n = "add_text" -> {"note_id", "text"}
      [] n = "add_tags" -> {"note_id", "tags"}
      [] n \in {"trash_note", "open_note", "get_note_by_id",
                "archive_note", "unarchive_note"} -> {"note_id"}
      [] n = "search_bear" -> {"term"}
      [] n \in {"get_notes_by_tag", "open_tag"} -> {"tag"}
      [] n = "rename_tag" -> {"old_tag", "new_tag"}
      [] OTHER -> {}

TextContent(text) == [type |-> "text", text |-> text]

\* str(value)
StrText(v) == [prefix |-> <<>>, value |-> v]

\* Faulty variant: the message alone, without the failure marker
ErrorTextNoMarker(e) == [prefix |-> <<>>, value |-> Str(e.msg)]

\* f"Error: {str(e)}"
ErrorText(e) == [prefix |-> <<"Error: ">>, value |-> Str(e.msg)]

IsDict(a) == a.t = "dict"

\* Faulty variant: a required key given with the value None counts as missing
LacksOrNull(a, keys) ==
    ~IsDict(a) \/ \E k \in keys : k \notin DOMAIN a.d \/ a.d[k] = None

\* not isinstance(arguments, dict) or "k" not in arguments [or ...]
Lacks(a, keys) == ~IsDict(a) \/ \E k \in keys : k \notin DOMAIN a.d

\* arguments.get(k, default)
Get(a, k, default) == IF k \in DOMAIN a.d THEN a.d[k] ELSE default

\* Faulty variant: the rejection does not say which argument is missing
RejectsUnnamed(msg) ==
    [out |-> Raises(Exc("ValueError", <<"Invalid arguments">>)), ev |-> <<>>, res |-> NoResult]

\* raise ValueError(msg), before any executor is called
Rejects(msg) == [out |-> Raises(Exc("ValueError", msg)), ev |-> <<>>, res |-> NoResult]

\* Faulty variant: no else branch, an unknown name falls through and returns nothing
UnknownToolFallsThrough(n) == [out |-> Returns(<<>>), ev |-> <<>>, res |-> NoResult]

\* The else branch: raise ValueError(f"Unknown tool: {name}")
UnknownTool(n) == Rejects(<<"Unknown tool: ", n>>)

NotesPayload(v) == Dict([notes |-> v])
NotesCountPayload(v) == Dict([notes |-> v, count |-> Num(Len(v.l))])
TagsPayload(v) == Dict([tags |-> v])
NotePayload(note) ==
    IF Truthy(note) THEN Dict([note |-> note])
    ELSE Dict([error |-> Str(<<"Note not found">>)])

\* The dict a reader branch builds around the reader's return value
Payload(wrap, v) ==
    CASE wrap = "notes" -> NotesPayload(v)
      [] wrap = "notes_count" -> NotesCountPayload(v)
      [] wrap = "tags" -> TagsPayload(v)
      [] wrap = "note" -> NotePayload(v)

\* Faulty variant: a reader branch that also hands a URI to the launcher
FromReaderOpens(r, wrap) ==
    [out |-> IF r.out.k = "return"
             THEN Returns(<<TextContent(StrText(Payload(wrap, r.out.v)))>>)
             ELSE r.out,
     ev |-> r.ev \o <<Ev("run", BearUrl("search", <<>>))>>,
     res |-> IF r.out.k = "return" THEN r.out.v ELSE NoResult]

\* A data reader's result r, wrapped by the branch that called it
FromReader(r, wrap) ==
    [out |-> IF r.out.k = "return"
             THEN Returns(<<TextContent(StrText(Payload(wrap, r.out.v)))>>)
             ELSE r.out,
     ev |-> r.ev,
     res |-> IF r.out.k = "return" THEN r.out.v ELSE NoResult]

\* Faulty variant: the branch calls its builder a second time for the value it wraps
FromBuilderTwice(fname, b) ==
    [out |-> IF b.k = "return" THEN Returns(<<TextContent(StrText(b.v))>>) ELSE b,
     ev |-> <<Ev("call", <<fname>>), Ev("call", <<fname>>)>>,
     res |-> IF b.k = "return" THEN b.v ELSE NoResult]

\* A command builder's result b, wrapped by the branch that called it
FromBuilder(fname, b) ==
    [out |-> IF b.k = "return" THEN Returns(<<TextContent(StrText(b.v))>>) ELSE b,
     ev |-> <<Ev("call", <<fname>>)>>,
     res |-> IF b.k = "return" THEN b.v ELSE NoResult]

\* The try block of call_tool
call_tool_body(n, a, db) ==
    CASE n = "get_notes" -> FromReader(get_notes(db), "notes")
      [] n = "get_tags" -> FromReader(get_tags(db), "tags")
      [] n = "get_notes_like" ->
            IF Lacks(a, {"like"})
            THEN Rejects(<<"Missing required argument: ", "like">>)
            ELSE FromReader(get_notes_like(db, a.d["like"]), "notes")
      [] n = "create_note" ->
            IF ~IsDict(a)
            THEN Rejects(<<"Invalid arguments">>)
            ELSE FromBuilder("create_note",
                             create_note(Get(a, "title", None), Get(a, "text", None),
                                         Get(a, "tags", None), Get(a, "pin", Bool(FALSE)),
                                         Get(a, "open_note", Bool(FALSE))))
      [] n = "add_text" ->
            IF Lacks(a, {"note_id", "text"})
            THEN Rejects(<<"Missing required arguments: ", "note_id", " and ", "text">>)
            ELSE FromBuilder("add_text",
                             add_text(a.d["note_id"], a.d["text"],
                                      Get(a, "mode", Str(<<"append">>)),
                                      Get(a, "open_note", Bool(FALSE))))
      [] n = "add_tags" ->
            IF Lacks(a, {"note_id", "tags"})
            THEN Rejects(<<"Missing required arguments: ", "note_id", " and ", "tags">>)
            ELSE FromBuilder("add_tags_to_note",
                             add_tags_to_note(a.d["note_id"], a.d["tags"]))
      [] n = "trash_note" ->
            IF Lacks(a, {"note_id"})
            THEN Rejects(<<"Missing required argument: ", "note_id">>)
            ELSE FromBuilder("trash_note", trash_note(a.d["note_id"]))
      [] n = "open_note" ->
            IF Lacks(a, {"note_id"})
            THEN Rejects(<<"Missing required argument: ", "note_id">>)
            ELSE FromBuilder("open_note", open_note(a.d["note_id"]))
      [] n = "search_bear" ->
            IF Lacks(a, {"term"})
            THEN Rejects(<<"Missing required argument: ", "term">>)
            ELSE FromBuilder("search_in_bear", search_in_bear(a.d["term"]))
      [] n = "get_note_by_id" ->
            IF Lacks(a, {"note_id"})
            THEN Rejects(<<"Missing required argument: ", "note_id">>)
            ELSE FromReader(get_note_by_id(db, a.d["note_id"]), "note")
      [] n = "get_notes_by_tag" ->
            IF Lacks(a, {"tag"})
            THEN Rejects(<<"Missing required argument: ", "tag">>)
            ELSE FromReader(get_notes_by_tag(db, a.d["tag"]), "notes_count")
      [] n = "get_archived_notes" -> FromReader(get_archived_notes(db), "notes_count")
      [] n = "archive_note" ->
            IF Lacks(a, {"note_id"})
            THEN Rejects(<<"Missing required argument: ", "note_id">>)
            ELSE FromBuilder("archive_note", archive_note(a.d["note_id"]))
      [] n = "unarchive_note" ->
            IF Lacks(a, {"note_id"})
            THEN Rejects(<<"Missing required argument: ", "note_id">>)
            ELSE FromBuilder("unarchive_note", unarchive_note(a.d["note_id"]))
      [] n = "open_tag" ->
            IF Lacks(a, {"tag"})
            THEN Rejects(<<"Missing required argument: ", "tag">>)
            ELSE FromBuilder("open_tag", open_tag(a.d["tag"]))
      [] n = "rename_tag" ->
            IF Lacks(a, {"old_tag", "new_tag"})
            THEN Rejects(<<"Missing required arguments: ", "old_tag", " and ", "new_tag">>)
            ELSE FromBuilder("rename_tag", rename_tag(a.d["old_tag"], a.d["new_tag"]))
      [] OTHER -> UnknownTool(n)

\* Faulty variant: except ValueError
CatchesValueErrorOnly(e) == e.cls = "ValueError"

\* except Exception as e: every class the modelled code raises derives from
\* Exception
Catches(e) == e.cls \in ExceptionClasses

-----------------------------------------------------------------------------
(* Actions *)

\* Faulty variant: the readers answer from a cache of the relations that was
\* filled at start-up, when the store held no row yet
DbAtStartup == [notes |-> <<>>, tags |-> <<>>, state |-> storeState]

\* The store as a reader's query finds it
Db == [notes |-> notes, tags |-> tags, state |-> storeState]

\* call_tool(name, arguments), from its entry to its return or, for a
\* command, to the point where subprocess.run blocks on the 'open' process.
\* Whether that process ever exits is the host's choice.  The handler has no
\* await in it: nothing else of the server runs between its entry and its
\* return.  Where the request comes from (pending') is the caller's part.
CallTool(n, a) ==
    /\ pc = "idle"
    /\ LET r == call_tool_body(n, a, Db)
       IN  /\ name' = n
           /\ arguments' = a
           /\ raised' = IF r.out.k = "raise" THEN r.out.e ELSE NoExc
           /\ returned' = r.res
           /\ exitStatus' = "none"
           /\ storeState' = IF Connected(r.ev) THEN AfterConnect(storeState)
                             ELSE storeState
           /\ CASE r.out.k = "return" ->
                    /\ trace' = r.ev
                    /\ response' = r.out.v
                    /\ propagated' = NoExc
                    /\ procFate' = "none"
                    /\ pc' = "done"
                [] r.out.k = "raise" ->
                    /\ trace' = r.ev
                    /\ response' = IF Catches(r.out.e)
                                   THEN <<TextContent(ErrorText(r.out.e))>> ELSE <<>>
                    /\ propagated' = IF Catches(r.out.e) THEN NoExc ELSE r.out.e
                    /\ procFate' = "none"
                    /\ pc' = "done"
                [] r.out.k = "open" ->
                    /\ trace' = r.ev \o <<Ev("run", r.out.url)>>
                    /\ response' = <<>>
                    /\ propagated' = NoExc
                    /\ procFate' \in {"exits", "hangs"}
                    /\ pc' = "waiting"
    /\ UNCHANGED <<notes, tags>>

\* subprocess.run returns or raises; _open_bear_url classifies it, the
\* builder returns that dict and call_tool wraps it
ProcReturns(exit) ==
    /\ pc = "waiting"
    /\ procFate = "exits"
    /\ LET result == _open_bear_url(trace[Len(trace)].x, exit)
       IN  /\ returned' = result
           /\ response' = <<TextContent(StrText(result))>>
    /\ exitStatus' = exit
    /\ pc' = "done"
    /\ UNCHANGED <<notes, tags, storeState, name, arguments, trace, procFate,
                   raised, propagated, pending>>

\* The front end takes the result; the dispatcher keeps nothing of the call
Deliver ==
    /\ pc = "done"
    /\ pc' = "idle"
    /\ name' = ""
    /\ arguments' = None
    /\ trace' = <<>>
    /\ procFate' = "none"
    /\ exitStatus' = "none"
    /\ raised' = NoExc
    /\ returned' = NoResult
    /\ response' = <<>>
    /\ propagated' = NoExc
    /\ UNCHANGED <<notes, tags, storeState, pending>>

NoCall ==
    /\ pc = "idle"
    /\ name = ""
    /\ arguments = None
    /\ trace = <<>>
    /\ procFate = "none"
    /\ exitStatus = "none"
    /\ raised = NoExc
    /\ returned = NoResult
    /\ response = <<>>
    /\ propagated = NoExc

-----------------------------------------------------------------------------
(* Inputs of the dispatcher specification *)

Strings(alphabet, n) == UNION {[1..k -> alphabet] : k \in 0..n}

IdNames == <<"n1", "n2", "n3", "n4">>
RowTitles == <<Str(<<"A", "b">>), None, Str(<<"%">>), Str(<<>>)>>
RowTexts == <<Str(<<"x", " ", "#", "t">>), Str(<<"a", "_">>), None, Str(<<"#", "t", "u">>)>>

Row(i, archived) ==
    [ZUNIQUEIDENTIFIER |-> Str(<<IdNames[i]>>),
     ZTITLE |-> RowTitles[i],
     ZTEXT |-> RowTexts[i],
     ZSUBTITLE |-> None,
     ZCREATIONDATE |-> Num(i),
     ZMODIFICATIONDATE |-> Num(i + 10),
     ZARCHIVED |-> archived]

\* ZARCHIVED of a row: 0, 1, or NULL
ArchivedFlags == {Num(0), Num(1), None}

\* Every store of at most MaxNotes rows with distinct identifiers, each row
\* archived, not archived, or with no flag
RECURSIVE StoresUpTo(_)
StoresUpTo(i) ==
    IF i = 0 THEN {<<>>}
    ELSE LET before == StoresUpTo(i - 1)
         IN  before \cup {Append(st, Row(i, ar)) : st \in before, ar \in ArchivedFlags}

Stores == StoresUpTo(MaxNotes)

FullStore == [i \in 1..MaxNotes |-> Row(i, Num(i % 2))]

TagRows == <<Str(<<"t">>), Str(<<"u">>)>>

Merge(a, b) == Dict(a.d @@ b.d)

\* The maps that give key k one of the values V, or leave it out
Opt(k, V) == {EmptyDict} \cup {Dict(k :> v) : v \in V}

IdVals == {Str(<<IdNames[i]>>) : i \in 1..MaxNotes} \cup {Str(<<"zz">>), None, List(<<>>)}
TextVals == {Str(<<>>), Str(<<"h", "i">>)}
ModeVals == AllowedModes \cup {Str(<<"bogus">>), None}
FlagVals == {Bool(TRUE), Bool(FALSE)}
TagListVals == {List(<<>>), List(<<Str(<<"a">>), Str(<<"b">>)>>), List(<<None>>), None}
LikeVals == {Str(<<"a">>), Str(<<"%">>), Str(<<"T">>), None}
TagVals == {Str(<<"t">>), Str(<<"q">>)}
TermVals == {Str(<<"a", " ", "&">>), None}
TitleVals == {Str(<<"T">>), Str(<<>>)}

NonDicts == {None, Str(<<"note_id">>)}

ArgSpace(n) ==
    NonDicts \cup
    CASE n = "get_notes_like" -> Opt("like", LikeVals)
      [] n = "create_note" ->
            {Merge(Merge(a, b), Merge(c, Merge(d, e))) :
                a \in Opt("title", TitleVals), b \in Opt("text", TextVals),
                c \in Opt("tags", TagListVals), d \in Opt("pin", FlagVals),
                e \in Opt("open_note", FlagVals)}
      [] n = "add_text" ->
            {Merge(Merge(a, b), Merge(c, d)) :
                a \in Opt("note_id", IdVals), b \in Opt("text", TextVals),
                c \in Opt("mode", ModeVals), d \in Opt("open_note", FlagVals)}
      [] n = "add_tags" ->
            {Merge(a, b) : a \in Opt("note_id", IdVals), b \in Opt("tags", TagListVals)}
      [] n \in {"trash_note", "open_note", "get_note_by_id",
                "archive_note", "unarchive_note"} -> Opt("note_id", IdVals)
      [] n = "search_bear" -> Opt("term", TermVals)
      [] n \in {"get_notes_by_tag", "open_tag"} -> Opt("tag", TagVals)
      [] n = "rename_tag" ->
            {Merge(a, b) : a \in Opt("old_tag", TagVals), b \in Opt("new_tag", TagVals)}
      [] OTHER -> Opt("like", LikeVals)

UnknownNames == {"delete_note", "GET_NOTES", "get_note"}

Names == ToolNames \cup UnknownNames

Init ==
    /\ \/ notes \in Stores /\ storeState = "ok"
       \/ notes = FullStore /\ storeState \in {"unopenable", "corrupt", "nocolumn"}
       \/ notes = <<>> /\ storeState = "absent"
    /\ tags = IF notes = <<>> THEN <<>> ELSE TagRows
    /\ pending = <<>>
    /\ NoCall

Next ==
    \/ /\ pc = "idle"
       /\ \E n \in Names : \E a \in ArgSpace(n) : CallTool(n, a)
       /\ UNCHANGED pending
    \/ \E exit \in ProcExits : ProcReturns(exit)
    \/ Deliver

Spec == Init /\ [][Next]_vars

\* Once the 'open' process has exited, subprocess.run returns and the handler
\* runs on to its return; the front end then takes the result.  Nothing
\* makes a process that hangs exit: subprocess.run is given no timeout.
SpecFair ==
    /\ Init
    /\ [][Next]_vars
    /\ WF_vars(\E exit \in ProcExits : ProcReturns(exit))
    /\ WF_vars(Deliver)

-----------------------------------------------------------------------------
(* The command-URI specification: add_text and create_note over ids, texts *)
(* and tags that hold the characters urlencode treats specially            *)

UrlAlphabet == {"a", " ", "&", "=", "%", "+", "26"}
IdAlphabet == {"n1", "&"}
TagAlphabet == {"a", "b", "c"}

UrlIds == {Str(x) : x \in Strings(IdAlphabet, MaxIdLen)}
UrlTexts == {Str(x) : x \in Strings(UrlAlphabet, MaxTextLen)}
UrlTagLists ==
    {List(l) : l \in UNION {[1..k -> {Str(<<c>>) : c \in TagAlphabet}] : k \in 0..MaxTags}}

AddTextCalls ==
    {Merge(Merge(Dict("note_id" :> i), Dict("text" :> x)), Merge(m, o)) :
        i \in UrlIds, x \in UrlTexts,
        m \in Opt("mode", AllowedModes), o \in Opt("open_note", {Bool(FALSE)})}

CreateNoteCalls ==
    {Merge(Dict("tags" :> l), Merge(x, p)) :
        l \in UrlTagLists,
        x \in Opt("title", {Str(<<"T", " ", "&">>)}), p \in Opt("pin", FlagVals)}

InitUrl ==
    /\ notes = <<>>
    /\ tags = <<>>
    /\ storeState = "ok"
    /\ pending = <<>>
    /\ NoCall

NextUrl ==
    \/ /\ pc = "idle"
       /\ \E a \in AddTextCalls : CallTool("add_text", a)
       /\ UNCHANGED pending
    \/ /\ pc = "idle"
       /\ \E a \in CreateNoteCalls : CallTool("create_note", a)
       /\ UNCHANGED pending
    \/ \E exit \in ProcExits : ProcReturns(exit)
    \/ Deliver

SpecUrl == InitUrl /\ [][NextUrl]_vars

-----------------------------------------------------------------------------
(* The search specification: get_notes_like over stores whose titles hold  *)
(* letters of both cases and the characters LIKE treats specially          *)

LikeAlphabet == {"a", "A", "b", "%", "_"}
LikeStrings == {Str(x) : x \in Strings(LikeAlphabet, MaxLikeLen)}
LikeTexts == {None, Str(<<"b", "A">>), Str(<<"_">>)}

LikeRow(title, text, archived) ==
    [ZUNIQUEIDENTIFIER |-> Str(<<"n1">>),
     ZTITLE |-> title,
     ZTEXT |-> text,
     ZSUBTITLE |-> None,
     ZCREATIONDATE |-> Num(1),
     ZMODIFICATIONDATE |-> Num(11),
     ZARCHIVED |-> Num(archived)]

LikeStores ==
    {<<>>} \cup
    {<<LikeRow(ti, te, ar)>> \o rest :
        ti \in LikeStrings \cup {None}, te \in LikeTexts, ar \in {0, 1},
        rest \in {<<>>, <<Row(2, Num(0))>>, <<Row(2, Num(1))>>}}

InitLike ==
    /\ notes \in LikeStores
    /\ tags = <<>>
    /\ storeState = "ok"
    /\ pending = <<>>
    /\ NoCall

NextLike ==
    \/ /\ pc = "idle"
       /\ \E x \in LikeStrings : CallTool("get_notes_like", Dict("like" :> x))
       /\ UNCHANGED pending
    \/ Deliver

SpecLike == InitLike /\ [][NextLike]_vars

-----------------------------------------------------------------------------
(* Properties of the dispatcher *)

Calls == {i \in 1..Len(trace) : trace[i].e = "call"}
NoExecutor == Calls = {}
NoStoreQuery == \A i \in 1..Len(trace) : trace[i].e \notin {"connect", "execute"}
NoLauncher == \A i \in 1..Len(trace) : trace[i].e # "run"

\* One response, carrying the failure marker
IsFailure(resp) ==
    /\ Len(resp) = 1
    /\ resp[1].type = "text"
    /\ resp[1].text.prefix = <<"Error: ">>

Contains(s, sub) ==
    \E i \in 0..(Len(s) - Len(sub)) : SubSeq(s, i + 1, i + Len(sub)) = sub

\* The required arguments the call in progress does not give
MissingKeys ==
    IF IsDict(arguments) THEN Required(name) \ DOMAIN arguments.d ELSE Required(name)

\* C1: a call of a tool with required arguments whose arguments are not a
\* map, or lack a required key, ends in a failure response whose message
\* names every missing argument, and neither a store query nor the launcher
\* (nor any executor at all) was invoked.
C1_MissingArgumentRejected ==
    (pc # "idle" /\ name \in ToolNames /\ MissingKeys # {}) =>
        /\ pc = "done"
        /\ propagated = NoExc
        /\ IsFailure(response)
        /\ \A k \in MissingKeys : Contains(response[1].text.value.s, <<k>>)
        /\ NoStoreQuery
        /\ NoLauncher
        /\ NoExecutor

C1_Witness ==
    /\ pc = "done"
    /\ name = "add_text"
    /\ IsDict(arguments)
    /\ DOMAIN arguments.d = {"note_id", "mode"}
    /\ IsFailure(response)
    /\ Contains(response[1].text.value.s, <<"text">>)

\* C2: a call under a name list_tools does not return ends in a failure
\* response that names the unknown operation, and nothing ran: no executor,
\* no store query, no launcher, whatever the arguments.
C2_UnknownToolRejected ==
    (pc # "idle" /\ name \notin ToolNames) =>
        /\ pc = "done"
        /\ propagated = NoExc
        /\ IsFailure(response)
        /\ Contains(response[1].text.value.s, <<name>>)
        /\ trace = <<>>

C2_Witness ==
    /\ pc = "done"
    /\ name = "delete_note"
    /\ IsDict(arguments)
    /\ "like" \in DOMAIN arguments.d
    /\ IsFailure(response)
    /\ response[1].text.value.s = <<"Unknown tool: ", "delete_note">>

\* C3: whatever was raised inside call_tool (by validation, a data reader
\* or a command builder) does not leave it: the call returns one response,
\* "Error: " followed by the exception's message.
C3_NoFaultPropagates ==
    (pc = "done" /\ raised # NoExc) =>
        /\ propagated = NoExc
        /\ IsFailure(response)
        /\ response[1].text.value = Str(raised.msg)

C3_Witness ==
    /\ pc = "done"
    /\ raised.cls = "OperationalError"
    /\ name = "get_tags"
    /\ IsFailure(response)
    /\ response[1].text.value = Str(<<"unable to open database file">>)

\* The response carries the executor's return value r
Carries(v, r) ==
    \/ v = r
    \/ v.t = "dict" /\ \E k \in DOMAIN v.d : v.d[k] = r
    \/ r = None /\ v = Dict([error |-> Str(<<"Note not found">>)])

ExactlyOneExecutor ==
    /\ Cardinality(Calls) = 1
    /\ NoStoreQuery \/ NoLauncher

ResponseWrapsOutcome ==
    /\ Len(response) = 1
    /\ propagated = NoExc
    /\ IF raised # NoExc
       THEN /\ response[1].text.prefix = <<"Error: ">>
            /\ response[1].text.value = Str(raised.msg)
       ELSE /\ response[1].text.prefix = <<>>
            /\ returned # NoResult
            /\ Carries(response[1].text.value, returned)

\* C5 as stated: every finished call of a known operation with all of its
\* required arguments present ran exactly one executor, once, and answered
\* with that executor's return value or raised failure.
C5_Original ==
    (pc = "done" /\ name \in ToolNames /\ MissingKeys = {}) =>
        ExactlyOneExecutor /\ ResponseWrapsOutcome

\* C5 amended: the same, for create_note only when its arguments are a map
\* (create_note requires no argument, yet rejects arguments that are not a
\* map before its builder is called).
C5_OneExecutorOnce ==
    (/\ pc = "done"
     /\ name \in ToolNames
     /\ MissingKeys = {}
     /\ (name = "create_note" => IsDict(arguments))) =>
        ExactlyOneExecutor /\ ResponseWrapsOutcome

C5_Witness ==
    /\ pc = "done"
    /\ name = "trash_note"
    /\ MissingKeys = {}
    /\ Cardinality(Calls) = 1
    /\ ~NoLauncher
    /\ returned = _open_bear_url(trace[Len(trace)].x, "nonzero")
    /\ response = <<TextContent(StrText(returned))>>

\* The mode add_text is called with
ModeOfCall == Get(arguments, "mode", Str(<<"append">>))

\* C6: add_text with a mode other than append, prepend or replace returns
\* {success: False, error: ...}, the message citing the mode given and the
\* three modes allowed, and the launcher is not invoked (no command URI
\* reaches it).
C6_InvalidModeRejected ==
    (/\ pc # "idle"
     /\ name = "add_text"
     /\ MissingKeys = {}
     /\ ModeOfCall \notin AllowedModes) =>
        /\ pc = "done"
        /\ NoLauncher
        /\ returned.t = "dict"
        /\ DOMAIN returned.d = {"success", "error"}
        /\ returned.d["success"] = Bool(FALSE)
        /\ Contains(returned.d["error"].s, <<"Invalid mode: ">> \o PyStr(ModeOfCall))
        /\ \A m \in AllowedModes : Contains(returned.d["error"].s, m.s)
        /\ response = <<TextContent(StrText(returned))>>

C6_Witness ==
    /\ pc = "done"
    /\ name = "add_text"
    /\ MissingKeys = {}
    /\ ModeOfCall = Str(<<"bogus">>)
    /\ returned.t = "dict"
    /\ returned.d["success"] = Bool(FALSE)
    /\ NoLauncher

\* C10: with the store readable, get_note_by_id of a text identifier
\* returns the row with that ZUNIQUEIDENTIFIER, archived or not, its
\* ZARCHIVED and ZMODIFICATIONDATE included, and the response carries it;
\* for an identifier no row has it returns None without raising and the
\* response is 'Note not found'.
C10_NoteById ==
    (/\ pc = "done"
     /\ name = "get_note_by_id"
     /\ MissingKeys = {}
     /\ arguments.d["note_id"].t = "str"
     /\ storeState = "ok") =>
        LET id == arguments.d["note_id"]
            hits == {i \in 1..Len(notes) : notes[i].ZUNIQUEIDENTIFIER = id}
        IN  /\ raised = NoExc
            /\ Len(response) = 1
            /\ IF hits # {}
               THEN /\ \E i \in hits :
                        /\ returned.t = "dict"
                        /\ DOMAIN returned.d =
                              {"ZCREATIONDATE", "ZMODIFICATIONDATE", "ZARCHIVED",
                               "ZSUBTITLE", "ZTEXT", "ZTITLE", "ZUNIQUEIDENTIFIER"}
                        /\ \A c \in DOMAIN returned.d : returned.d[c] = notes[i][c]
                    /\ response[1].text = StrText(Dict([note |-> returned]))
               ELSE /\ returned = None
                    /\ response[1].text =
                          StrText(Dict([error |-> Str(<<"Note not found">>)]))

C10_Witness ==
    /\ pc = "done"
    /\ name = "get_note_by_id"
    /\ returned.t = "dict"
    /\ returned.d["ZUNIQUEIDENTIFIER"] = Str(<<"n2">>)
    /\ returned.d["ZARCHIVED"] = Num(1)
    /\ returned.d["ZMODIFICATIONDATE"] = Num(12)

-----------------------------------------------------------------------------
(* Properties of the call as a whole *)

\* C4 as stated: every call eventually yields exactly one response; none
\* ends without a response and none produces more than one.
C4_Original ==
    /\ [](Len(response) <= 1)
    /\ [](pc = "done" => Len(response) = 1)
    /\ ((pc # "idle") ~> (pc = "done" /\ Len(response) = 1))

\* C4 amended: no call ends without a response or produces more than one,
\* and every call whose 'open' process exits (or that starts none)
\* eventually yields exactly one response.  A call whose 'open' process
\* never exits stays blocked in subprocess.run and yields none.
C4_OneResponse ==
    /\ [](Len(response) <= 1)
    /\ [](pc = "done" => (Len(response) = 1 /\ propagated = NoExc))
    /\ ((pc # "idle" /\ procFate # "hangs") ~> (pc = "done" /\ Len(response) = 1))

C4_Witness ==
    /\ pc = "done"
    /\ procFate = "exits"
    /\ ~NoLauncher
    /\ Len(response) = 1
    /\ response[1].text.value.d["success"] = Bool(FALSE)

-----------------------------------------------------------------------------
(* Properties of the command URIs *)

\* The character a pair of hex digits stands for
CharOf(h) == CHOOSE c \in Reserved : HexOf(c) = h

\* Percent-decoding: %XX is the character XX encodes, all else is itself
RECURSIVE unquote(_)
unquote(s) ==
    IF s = <<>> THEN <<>>
    ELSE IF Head(s) = "%" /\ Len(s) >= 2 /\ s[2] \in HexPairs
         THEN <<CharOf(s[2])>> \o unquote(SubSeq(s, 3, Len(s)))
         ELSE <<Head(s)>> \o unquote(Tail(s))

\* Form decoding, the inverse of quote_plus: + is a space, then as unquote
unquote_plus(s) == unquote([i \in 1..Len(s) |-> IF s[i] = "+" THEN " " ELSE s[i]])

FirstAt(s, c) == CHOOSE i \in 1..Len(s) : s[i] = c /\ \A j \in 1..(i - 1) : s[j] # c
Has(s, c) == \E i \in 1..Len(s) : s[i] = c

RECURSIVE Split(_, _)
Split(s, c) ==
    IF ~Has(s, c) THEN <<s>>
    ELSE <<SubSeq(s, 1, FirstAt(s, c) - 1)>> \o Split(SubSeq(s, FirstAt(s, c) + 1, Len(s)), c)

\* key=value at the first "="
KeyValue(piece) ==
    IF ~Has(piece, "=") THEN <<piece, <<>>>>
    ELSE <<SubSeq(piece, 1, FirstAt(piece, "=") - 1),
           SubSeq(piece, FirstAt(piece, "=") + 1, Len(piece))>>

\* The query's key=value pairs as written, in order
QueryPairs(q) ==
    IF q = <<>> THEN <<>>
    ELSE LET pieces == Split(q, "&") IN [i \in 1..Len(pieces) |-> KeyValue(pieces[i])]

PercentDecoded(q) ==
    [i \in 1..Len(QueryPairs(q)) |->
        <<unquote(QueryPairs(q)[i][1]), unquote(QueryPairs(q)[i][2])>>]

FormDecoded(q) ==
    [i \in 1..Len(QueryPairs(q)) |->
        <<unquote_plus(QueryPairs(q)[i][1]), unquote_plus(QueryPairs(q)[i][2])>>]

\* The URI handed to the launcher by the call in progress, and its query
Launched == ~NoLauncher
LaunchedUrl == trace[Len(trace)].x
QueryOf(url) == SubSeq(url, 4, Len(url))

AddTextOfStrings ==
    /\ pc # "idle"
    /\ name = "add_text"
    /\ MissingKeys = {}
    /\ arguments.d["note_id"].t = "str"
    /\ arguments.d["text"].t = "str"
    /\ ModeOfCall \in AllowedModes
    /\ ~Truthy(Get(arguments, "open_note", Bool(FALSE)))

AddTextParams ==
    << << <<"id">>, arguments.d["note_id"].s >>,
       << <<"text">>, arguments.d["text"].s >>,
       << <<"mode">>, ModeOfCall.s >> >>

\* C7: for add_text of any id, any text, a mode among append, prepend and
\* replace, and open_note false, the URI handed to the launcher is
\* bear://x-callback-url/add-text?<query>, and percent-decoding the query
\* gives exactly id, text and mode with the values given.
C7_AddTextRoundTrip ==
    AddTextOfStrings =>
        /\ Launched
        /\ SubSeq(LaunchedUrl, 1, 3) = <<"bear://x-callback-url/", "add-text", "?">>
        /\ PercentDecoded(QueryOf(LaunchedUrl)) = AddTextParams

\* The same with the query decoded as a form (+ read as a space)
AddTextFormRoundTrip ==
    AddTextOfStrings =>
        /\ Launched
        /\ SubSeq(LaunchedUrl, 1, 3) = <<"bear://x-callback-url/", "add-text", "?">>
        /\ FormDecoded(QueryOf(LaunchedUrl)) = AddTextParams

CreateNoteWithTags ==
    /\ pc # "idle"
    /\ name = "create_note"
    /\ IsDict(arguments)
    /\ "tags" \in DOMAIN arguments.d
    /\ arguments.d["tags"].t = "list"
    /\ arguments.d["tags"].l # <<>>
    /\ \A i \in 1..Len(arguments.d["tags"].l) : arguments.d["tags"].l[i].t = "str"

TagsJoined ==
    JoinSeq(<<",">>, [i \in 1..Len(arguments.d["tags"].l) |-> arguments.d["tags"].l[i].s])

TagsPairs ==
    {i \in 1..Len(QueryPairs(QueryOf(LaunchedUrl))) :
        QueryPairs(QueryOf(LaunchedUrl))[i][1] = <<"tags">>}

\* C8 as stated: create_note with a non-empty tag list puts one single tags
\* parameter in the query string, and the query string contains "tags="
\* followed by the tags joined by commas (tags=a,b for ["a","b"]).
C8_Original ==
    CreateNoteWithTags =>
        /\ Launched
        /\ Cardinality(TagsPairs) = 1
        /\ Contains(QueryOf(LaunchedUrl), <<"tags", "=">> \o TagsJoined)

\* C8 amended: create_note with a non-empty tag list puts one single tags
\* parameter in the query string, never repeated keys; its value is the
\* tags joined by commas in list order as urlencode encodes them, each
\* comma written %2C (tags=a%2Cb for ["a","b"]), and decodes to that join.
C8_TagsCommaJoined ==
    CreateNoteWithTags =>
        /\ Launched
        /\ Cardinality(TagsPairs) = 1
        /\ \A i \in TagsPairs :
              LET raw == QueryPairs(QueryOf(LaunchedUrl))[i][2]
              IN  /\ ~Has(raw, ",")
                  /\ unquote_plus(raw) = TagsJoined

C8_Witness ==
    /\ CreateNoteWithTags
    /\ arguments.d["tags"] = List(<<Str(<<"a">>), Str(<<"b">>)>>)
    /\ Launched
    /\ Contains(QueryOf(LaunchedUrl), <<"tags", "=", "a", "%", "2C", "b">>)

-----------------------------------------------------------------------------
(* Properties of the search *)

LowerSeq(s) == [i \in 1..Len(s) |-> Lower(s[i])]

\* The column holds text that contains x, letter case apart
ContainsText(col, x) == col.t = "str" /\ Contains(LowerSeq(col.s), LowerSeq(x))

\* C9: get_notes_like(X) returns exactly the rows with ZARCHIVED = 0 whose
\* title or body contains X, letter case apart: every such row, no row
\* without X in both, no archived row.
C9_NotesLikeExact ==
    (/\ pc = "done"
     /\ name = "get_notes_like"
     /\ MissingKeys = {}
     /\ arguments.d["like"].t = "str") =>
        LET x == arguments.d["like"].s
            Wanted(row) == /\ row.ZARCHIVED = Num(0)
                           /\ ContainsText(row.ZTITLE, x) \/ ContainsText(row.ZTEXT, x)
        IN  /\ raised = NoExc
            /\ returned = MapRows(SelectSeq(notes, Wanted))

-----------------------------------------------------------------------------
(* Properties of the list readers *)

\* The identifiers of the notes a list reader returned
Ids(result) == {result.l[i].d["ZUNIQUEIDENTIFIER"] : i \in 1..Len(result.l)}

\* What the other of the two list readers returns on the same store
OtherListing ==
    IF name = "get_notes" THEN get_archived_notes(Db).out.v ELSE get_notes(Db).out.v

\* C11: on a readable store get_notes returns exactly the rows with
\* ZARCHIVED = 0 and get_archived_notes exactly the rows with ZARCHIVED = 1,
\* in row order; a row whose flag is 0 or 1 is in exactly one of the two
\* results, no row is in both, and a row with any other flag is in neither.
C11_ArchivePartition ==
    (/\ pc = "done"
     /\ name \in {"get_notes", "get_archived_notes"}
     /\ storeState = "ok") =>
        LET flag == IF name = "get_notes" THEN Num(0) ELSE Num(1)
            Wanted(row) == row.ZARCHIVED = flag
        IN  /\ raised = NoExc
            /\ returned = MapRows(SelectSeq(notes, Wanted))
            /\ Ids(returned) \cap Ids(OtherListing) = {}
            /\ \A i \in 1..Len(notes) :
                  LET id == notes[i].ZUNIQUEIDENTIFIER
                  IN  IF notes[i].ZARCHIVED \in {Num(0), Num(1)}
                      THEN (id \in Ids(returned)) # (id \in Ids(OtherListing))
                      ELSE id \notin Ids(returned) \cup Ids(OtherListing)

C11_Witness ==
    /\ pc = "done"
    /\ name = "get_archived_notes"
    /\ storeState = "ok"
    /\ Len(notes) = 2
    /\ notes[1].ZARCHIVED = Num(0)
    /\ notes[2].ZARCHIVED = Num(1)
    /\ Ids(returned) = {Str(<<"n2">>)}
    /\ Ids(OtherListing) = {Str(<<"n1">>)}

-----------------------------------------------------------------------------
(* Properties of the launcher adapter *)

RunEvents == {i \in 1..Len(trace) : trace[i].e = "run"}

\* C12: a command starts the 'open' process once and never again; the call
\* answers nothing before the process has ended; once it has, the adapter
\* has returned {success: True, ...} if and only if the exit was zero, and
\* {success: False, error: <message>} on a non-zero exit or a failure to
\* start, and nothing was raised.
C12_LauncherOnce ==
    /\ Cardinality(RunEvents) <= 1
    /\ pc = "waiting" =>
          /\ Cardinality(RunEvents) = 1
          /\ exitStatus = "none"
          /\ response = <<>>
          /\ returned = NoResult
    /\ (pc = "done" /\ RunEvents # {}) =>
          /\ Cardinality(RunEvents) = 1
          /\ exitStatus \in ProcExits
          /\ raised = NoExc
          /\ propagated = NoExc
          /\ returned.t = "dict"
          /\ (returned.d["success"] = Bool(TRUE)) <=> (exitStatus = "zero")
          /\ IF exitStatus = "zero"
             THEN DOMAIN returned.d = {"success", "message"}
             ELSE /\ DOMAIN returned.d = {"success", "error"}
                  /\ returned.d["success"] = Bool(FALSE)
                  /\ returned.d["error"].t = "str"
                  /\ returned.d["error"].s # <<>>

C12_Witness ==
    /\ pc = "done"
    /\ name = "archive_note"
    /\ Cardinality(RunEvents) = 1
    /\ exitStatus = "nonzero"
    /\ returned.t = "dict"
    /\ returned.d["success"] = Bool(FALSE)
    /\ Contains(returned.d["error"].s, <<"']' returned non-zero exit status 1.">>)

-----------------------------------------------------------------------------
(* Properties of the store *)

\* C13: no step of this system modifies the notes store: the database file
\* is opened for reading only, and the file and the contents of its notes
\* and tags relations are after every call what they were before it.
C13_StoreUntouched == [][UNCHANGED <<notes, tags, storeState>>]_vars

\* The rows of the two relations, apart from the file that holds them
RelationsUntouched == [][UNCHANGED <<notes, tags>>]_vars

-----------------------------------------------------------------------------
(* Properties of the store connections *)

ReaderNames ==
    {"get_notes", "get_notes_like", "get_tags", "get_note_by_id", "get_notes_by_tag",
     "get_archived_notes"}

ConnectAttempts == {i \in 1..Len(trace) : trace[i].e = "connect"}
OpenedAt == {i \in 1..Len(trace) : trace[i] = Ev("connect", <<"ok">>)}
ClosedAt == {i \in 1..Len(trace) : trace[i].e = "close"}

\* C14: a call of a data reader connects to the store once; a connection it
\* opened is closed before the reader returns or raises, on every exit path
\* (the query raising and the row mapping raising included), so a finished
\* call holds no open connection, and between calls none is held.
C14_ConnectionReleased ==
    /\ Cardinality(OpenedAt) <= 1
    /\ Cardinality(ClosedAt) = Cardinality(OpenedAt)
    /\ \A i \in OpenedAt : \E j \in ClosedAt : j > i
    /\ (pc = "done" /\ name \in ReaderNames /\ MissingKeys = {}) =>
          /\ Cardinality(ConnectAttempts) = 1
          /\ raised.cls \in {"ProgrammingError", "IndexError"} =>
                Cardinality(OpenedAt) = 1
    /\ pc = "idle" => trace = <<>>

C14_Witness ==
    /\ pc = "done"
    /\ name = "get_notes"
    /\ storeState = "nocolumn"
    /\ raised.cls = "IndexError"
    /\ Cardinality(OpenedAt) = 1
    /\ trace[Len(trace)] = Ev("close", <<>>)

-----------------------------------------------------------------------------
(* The shared-store specification: requests arrive while a call is in      *)
(* progress, and Bear commits changes to the store between and during the  *)
(* calls                                                                   *)

Request(n, a) == [name |-> n, arguments |-> a]

SharedRequests ==
    {Request("get_notes", EmptyDict),
     Request("get_archived_notes", EmptyDict),
     Request("get_tags", EmptyDict),
     Request("get_note_by_id", Dict("note_id" :> Str(<<"n1">>))),
     Request("archive_note", Dict("note_id" :> Str(<<"n1">>)))}

\* The titles of the tag rows Bear writes
NewTags == {Str(<<"t">>), Str(<<"v">>)}

\* The front end receives a request, whether or not a call is in progress
Accept(n, a) ==
    /\ Len(pending) < MaxPending
    /\ pending' = Append(pending, Request(n, a))
    /\ UNCHANGED <<notes, tags, storeState, pc, name, arguments, trace, procFate,
                   exitStatus, raised, returned, response, propagated>>

\* The front end runs call_tool for the oldest request it holds.  The
\* handler is a coroutine with no await in it, so it starts only when no
\* other call of it is running.
Handle ==
    /\ pc = "idle"
    /\ pending # <<>>
    /\ CallTool(Head(pending).name, Head(pending).arguments)
    /\ pending' = Tail(pending)

\* Bear archives or unarchives a note and commits
BearArchives(i) ==
    /\ i \in 1..Len(notes)
    /\ notes' = [notes EXCEPT ![i].ZARCHIVED = IF @ = Num(1) THEN Num(0) ELSE Num(1)]
    /\ UNCHANGED <<tags, storeState, pc, name, arguments, trace, procFate,
                   exitStatus, raised, returned, response, propagated, pending>>

\* Bear writes a row of ZSFNOTETAG and commits
BearAddsTag(title) ==
    /\ Len(tags) < MaxTagRows
    /\ tags' = Append(tags, title)
    /\ UNCHANGED <<notes, storeState, pc, name, arguments, trace, procFate,
                   exitStatus, raised, returned, response, propagated, pending>>

InitShared ==
    /\ notes = FullStore
    /\ tags = <<>>
    /\ storeState = "ok"
    /\ pending = <<>>
    /\ NoCall

NextShared ==
    \/ \E r \in SharedRequests : Accept(r.name, r.arguments)
    \/ Handle
    \/ \E exit \in ProcExits : ProcReturns(exit)
    \/ Deliver
    \/ \E i \in 1..MaxNotes : BearArchives(i)
    \/ \E title \in NewTags : BearAddsTag(title)

SpecShared == InitShared /\ [][NextShared]_vars

-----------------------------------------------------------------------------
(* Properties of calls on a shared store *)

\* The store at the moment of a step
StoreNow == [notes |-> notes, tags |-> tags, state |-> storeState]

\* What call_tool(n, a) does when it runs alone against the store db
Alone(n, a, db) == call_tool_body(n, a, db)

\* call_tool starts in this step
Starts == pc = "idle" /\ pc' # "idle"

\* subprocess.run returns in this step
Resumes == pc = "waiting" /\ pc' = "done"

-----------------------------------------------------------------------------
(* Properties of the tag listing *)

\* C16: get_tags on a readable store returns every title the tags relation
\* holds, and no title more than once, whatever the relation holds.
C16_TagsDistinct ==
    [][(Starts /\ name' = "get_tags" /\ storeState = "ok") =>
          /\ returned'.t = "list"
          /\ \A i \in 1..Len(tags) :
                \E j \in 1..Len(returned'.l) : returned'.l[j] = tags[i]
          /\ \A j, k \in 1..Len(returned'.l) :
                j # k => returned'.l[j] # returned'.l[k]
      ]_vars

\* What the code does: one entry per row of the relation, in row order
TagsOnePerRow ==
    [][(Starts /\ name' = "get_tags" /\ storeState = "ok") => returned' = List(tags)]_vars

-----------------------------------------------------------------------------
(* Properties of the executors' effects *)

CommandNames == ToolNames \ ReaderNames

StoreEvents == {i \in 1..Len(trace) : trace[i].e \in {"connect", "execute", "close"}}

\* C17: a call of one of the six read operations never hands anything to
\* the launcher; a call of one of the ten command operations never opens a
\* store connection nor queries the store; the 'open' process is started at
\* most once in a call, by a command, as the last thing the call does
\* before it waits.
C17_DisjointEffects ==
    /\ name \in ReaderNames => RunEvents = {}
    /\ name \in CommandNames => StoreEvents = {}
    /\ Cardinality(RunEvents) <= 1
    /\ RunEvents # {} =>
          /\ name \in CommandNames
          /\ RunEvents = {Len(trace)}
          /\ Cardinality(Calls) = 1

C17_Witness ==
    /\ pc = "done"
    /\ name = "rename_tag"
    /\ Cardinality(RunEvents) = 1
    /\ StoreEvents = {}
    /\ exitStatus = "zero"

-----------------------------------------------------------------------------
(* Properties of the validation *)

IdOnlyCommands == {"trash_note", "open_note", "archive_note", "unarchive_note"}

IdOnlySegment ==
    CASE name = "trash_note" -> "trash"
      [] name = "open_note" -> "open-note"
      [] name = "archive_note" -> "archive"
      [] name = "unarchive_note" -> "unarchive"

\* C18: for an operation with required arguments the executor is called if
\* and only if the arguments are a map that holds every required key,
\* whatever the values (None or a wrongly typed value included); an id-only
\* command then hands the launcher the URI built from that value; get_notes,
\* get_tags and get_archived_notes call their executor whatever the
\* arguments are; create_note calls it if and only if the arguments are a
\* map and otherwise answers 'Invalid arguments'.
C18_PresenceOnly ==
    (pc # "idle" /\ name \in ToolNames) =>
        /\ Required(name) # {} =>
              (Calls # {} <=>
                  (IsDict(arguments) /\ Required(name) \subseteq DOMAIN arguments.d))
        /\ name \in {"get_notes", "get_tags", "get_archived_notes"} =>
              Cardinality(Calls) = 1
        /\ name = "create_note" =>
              /\ Calls # {} <=> IsDict(arguments)
              /\ ~IsDict(arguments) =>
                    /\ IsFailure(response)
                    /\ response[1].text.value = Str(<<"Invalid arguments">>)
        /\ (name \in IdOnlyCommands /\ MissingKeys = {}) =>
              /\ Cardinality(RunEvents) = 1
              /\ trace[Len(trace)].x =
                    <<"bear://x-callback-url/", IdOnlySegment, "?", "id", "=">>
                    \o quote_plus(PyStr(arguments.d["note_id"]))

C18_Witness ==
    /\ pc = "done"
    /\ name = "trash_note"
    /\ arguments = Dict("note_id" :> None)
    /\ Cardinality(Calls) = 1
    /\ trace[Len(trace)] =
          Ev("run", <<"bear://x-callback-url/", "trash", "?", "id", "=", "None">>)

=============================================================================
